---- MODULE Spec2Model ----
(***************************************************************************)
(* The session lifecycle and change-detection loop of the LSF monitor      *)
(* (src/monitor_lsf.py, monitor_page and the functions it calls), as a     *)
(* state machine.  One process; the only asynchronous event is the         *)
(* shutdown signal (signal_handler), which may run between any two steps.  *)
(*                                                                         *)
(* The browser is the environment: every driver operation either returns   *)
(* or raises one of the exception kinds below, and takes some time.        *)
(***************************************************************************)
EXTENDS Integers, FiniteSets, Sequences, TLC

\* ---------------------------------------------------------------- bounds
MaxText     == 2    \* the page shows one of the texts 0..MaxText (0 is "")
MaxSessions == 3    \* WebDriver sessions created in one run
MaxCycles   == 3    \* iterations of the while loop in one run
MaxMenu     == 2    \* 'auflistung' entries the page may show
MaxOverrun  == 2    \* seconds an operation may take beyond CHECK_INTERVAL
MaxElapsed  == 40   \* SleepSpec: elapsed times 0..MaxElapsed
MaxInterval == 35   \* SleepSpec: configured intervals 0..MaxInterval
MaxWord     == 2    \* ReadySpec: letters in a host, a path or a query

\* ------------------------------------------------------- program constants
CHECK_INTERVAL == 30   \* config.py: CHECK_INTERVAL default
EmptyText      == 0    \* the text "" returned by get_current_content on failure
NoDriver       == 0    \* driver = None

\* --------------------------------------------------------------- values
\* Optional[str]: None, or a text.  Texts are numbered; equal numbers are
\* equal strings.
None   == [isNone |-> TRUE, text |-> EmptyText]
Str(t) == [isNone |-> FALSE, text |-> t]
Texts  == 0..MaxText

\* Python truthiness of an Optional[str] ("not initial_content").
FalsyMissesCheck(v) == FALSE
Falsy(v) == v.isNone \/ v.text = EmptyText

\* ----------------------------------------------------------- exceptions
\* The kinds an operation of the driver can raise.  The first three are
\* the selenium classes the module imports; NoSuchElementException and
\* TimeoutException are subclasses of WebDriverException.  "Exception" is
\* any error that is not a WebDriverException.
NoError    == "none"
Exceptions == {"WebDriverException", "NoSuchElementException",
               "TimeoutException", "Exception"}

\* What driver.refresh() can raise: the browser is gone
\* (WebDriverException), the page load times out (TimeoutException), or
\* an error that is no WebDriverException.  It looks up no element.
RefreshErrors == Exceptions \ {"NoSuchElementException"}

\* except (NoSuchElementException, TimeoutException)
ElementNotFound(e) == e \in {"NoSuchElementException", "TimeoutException"}

\* except WebDriverException
OnlyBaseClass(e) == e = "WebDriverException"
IsWebDriverException(e) ==
    e \in {"WebDriverException", "NoSuchElementException", "TimeoutException"}

\* The handler of the loop's try that takes an exception raised in a cycle.
LoopHandler(e) == IF IsWebDriverException(e) THEN "recover_quit" ELSE "outer_except"

\* ------------------------------------------------------ pure computations
Max(a, b) == IF a >= b THEN a ELSE b

\* sleep_time = max(0, CHECK_INTERVAL - elapsed_time)
SleepTimeUnclamped(interval, e) == interval - e
SleepTime(interval, e) == Max(0, interval - e)

\* The seconds one browser operation may take in Spec: none, a few, just
\* under the interval, the interval, and more than the interval.
Durations == {0, 5, CHECK_INTERVAL - 1, CHECK_INTERVAL, CHECK_INTERVAL + MaxOverrun}

\* while running:
LoopConditionIgnoresFlag(r) == TRUE
LoopCondition(r) == r

\* if current_content != initial_content:
ChangedAlways(cur, last) == TRUE
Changed(cur, last) == cur # last

\* the value of initial_content after the if/else of a cycle
BaselineNeverUpdated(cur, last) == last
BaselineClearedWhenEqual(cur, last) == IF Changed(cur, last) THEN cur ELSE None
BaselineAfterCompare(cur, last) == IF Changed(cur, last) THEN cur ELSE last

\* initial_content = get_initial_content(driver) in the recovery handler.
\* Both arguments carry the session the value was obtained from.
BaselineKeptAcrossRecovery(fresh, old) == old
BaselineAfterRecovery(fresh, old) == fresh

\* if driver: driver.quit()
QuitLeavesSessionOpen(d, l) == l
Quit(d, l) == IF d # NoDriver THEN l \ {d} ELSE l

\* ------------------------------------------------------------------ URLs
\* A string is a sequence of characters.
Words(letters, n) == UNION {[1..k -> letters] : k \in 1..n}

\* str.lower()
LowerChar(c) == IF c = "A" THEN "a" ELSE IF c = "B" THEN "b" ELSE c
Lower(s) == [i \in DOMAIN s |-> LowerChar(s[i])]

\* sub in s
Contains(sub, s) ==
    \E i \in 0..(Len(s) - Len(sub)) : SubSeq(s, i + 1, i + Len(sub)) = sub

\* The first position of s that holds a character of cs, Len(s) + 1 if none.
IndexOf(s, cs) ==
    IF \E i \in 1..Len(s) : s[i] \in cs
    THEN CHOOSE i \in 1..Len(s) : s[i] \in cs /\ \A j \in 1..(i - 1) : s[j] \notin cs
    ELSE Len(s) + 1

\* urlparse(url).netloc: after an optional "scheme:", the text between a
\* leading "//" and the next "/", "?" or "#"; empty without the "//".
SchemeChars == {"h", "a", "b", "A", "B"}
urlparse_netloc(url) ==
    LET i    == IndexOf(url, {":"})
        rest == IF i > 1 /\ i <= Len(url) /\ \A k \in 1..(i - 1) : url[k] \in SchemeChars
                THEN SubSeq(url, i + 1, Len(url))
                ELSE url
    IN IF Len(rest) >= 2 /\ rest[1] = "/" /\ rest[2] = "/"
       THEN LET tail == SubSeq(rest, 3, Len(rest))
            IN SubSeq(tail, 1, IndexOf(tail, {"/", "?", "#"}) - 1)
       ELSE <<>>

\* _get_netloc(url) = urlparse(url or "").netloc.lower()
get_netloc(url) == Lower(urlparse_netloc(url))

\* What driver.find_elements(By.CLASS_NAME, c) does for the three marker
\* classes 'auflistung', 'treelist', 'content', in the order of the code.
LookupOutcomes == {"absent", "present", "raises"}

\* The "or" chain of the three lookups inside the try: a lookup that
\* raises ends the chain with "not ready" (except Exception: pass).
MarkerFound(m) ==
    IF m[1] # "absent" THEN m[1] = "present"
    ELSE IF m[2] # "absent" THEN m[2] = "present"
    ELSE m[3] = "present"

\* _post_login_ready(driver, target_host), with the current URL of the
\* driver ("" when reading it raises) and the outcomes of the lookups.
PostLoginReadyUrlOnly(current_url, markers, target_host) ==
    target_host # <<>> /\ Contains(target_host, current_url)
post_login_ready(current_url, markers, target_host) ==
    IF target_host # <<>> /\ Contains(target_host, current_url)
    THEN TRUE
    ELSE MarkerFound(markers)

\* The login pages and current URLs of ReadySpec.
Scheme == <<"h", ":", "/", "/">>
LoginPages ==
    {Scheme \o w \o q : w \in Words({"a", "A"}, MaxWord), q \in {<<>>, <<"/", "a">>}}
        \cup {<<"a", "/", "b">>}
CurrentUrls ==
    {<<>>} \cup
    {Scheme \o w \o r :
        w \in Words({"a", "b"}, MaxWord),
        r \in {<<>>} \cup {<<c>> \o v : c \in {"/", "?"}, v \in Words({"a", "b"}, MaxWord)}}

\* ---------------------------------------------------------------- state
VARIABLES
    pc,               \* position in monitor_page / get_initial_content
    phase,            \* "Starting", "Monitoring" or "Recovering"
    running,          \* the global shutdown flag
    driver,           \* the session held in the variable driver (NoDriver = None)
    initial_content,  \* lastSnapshot
    current_content,  \* the text extracted in this cycle
    nav_result,       \* the value get_initial_content is returning
    raised,           \* the exception in flight (NoError when none)
    elapsed_time,     \* as computed at the end of the cycle
    sleep_time,       \* as computed at the end of the cycle
    exitCode,         \* process exit status once stopped
    check_interval,   \* the value config.py gave CHECK_INTERVAL
    probe,            \* the last poll of _post_login_ready (ReadySpec)
    live,             \* environment: sessions created and not yet quit
    created,          \* environment: number of sessions created so far
    clock,            \* environment: seconds since start_time was taken
    h                 \* history, read by the properties only

vars == <<pc, phase, running, driver, initial_content, current_content,
          nav_result, raised, elapsed_time, sleep_time, exitCode,
          check_interval, probe, live, created, clock, h>>

\* Everything but pc and the history, for the steps that only move on.
data == <<phase, running, driver, initial_content, current_content,
          nav_result, raised, elapsed_time, sleep_time, exitCode,
          check_interval, probe, live, created, clock>>

\* No poll of the readiness predicate has been recorded.
NoProbe == [polled |-> FALSE]

NoHistory ==
    [cycles |-> 0, completed |-> 0, refreshes |-> 0, compares |-> 0,
     alerts |-> 0, cycleAlerts |-> 0, soundFailed |-> FALSE,
     compared |-> FALSE, prevBase |-> None,
     baseFrom |-> NoDriver, curFrom |-> NoDriver, navOn |-> NoDriver,
     cycleError |-> NoError, cycleErrorAt |-> "none", failClock |-> 0,
     stopCause |-> "none", stopError |-> NoError, stopPhase |-> "none",
     signalCycle |-> 0, signalAt |-> "none",
     unchangedRun |-> 0, runBase |-> None,
     menuCount |-> -1, navError |-> NoError, errSession |-> NoDriver,
     startYield |-> "pending", manual |-> FALSE, pendingChange |-> FALSE]

Init ==
    /\ pc = "start"
    /\ phase = "Starting"
    /\ running = TRUE
    /\ driver = NoDriver
    /\ initial_content = None
    /\ current_content = None
    /\ nav_result = None
    /\ raised = NoError
    /\ elapsed_time = 0
    /\ sleep_time = 0
    /\ exitCode = 0
    /\ check_interval = CHECK_INTERVAL
    /\ probe = NoProbe
    /\ live = {}
    /\ created = 0
    /\ clock = 0
    /\ h = NoHistory

\* finally: logger.info("Shutting down"); if driver: driver.quit()
Finally(code, cause, hh) ==
    /\ pc' = "stopped"
    /\ exitCode' = code
    /\ live' = Quit(driver, live)
    /\ h' = [hh EXCEPT !.stopCause = cause, !.stopPhase = phase]

\* signal_handler: running = False.  Registered for SIGINT and SIGTERM
\* before anything else happens, so it can run between any two steps.
Signal ==
    /\ pc # "stopped"
    /\ running
    /\ running' = FALSE
    /\ h' = [h EXCEPT !.signalCycle = h.cycles, !.signalAt = pc]
    /\ UNCHANGED <<pc, phase, driver, initial_content, current_content,
                   nav_result, raised, elapsed_time, sleep_time, exitCode,
                   check_interval, probe, live, created, clock>>

\* driver = setup_driver(): a new session, or, when creating it raises
\* WebDriverException, sys.exit(1) inside setup_driver.  SystemExit is no
\* Exception: it passes the "except Exception" of monitor_page, runs its
\* finally and ends the process with status 1.  The failure is the one of
\* starting the browser: no session exists when it happens.
setup_driver ==
    \/ /\ created < MaxSessions
       /\ driver' = created + 1
       /\ created' = created + 1
       /\ live' = live \cup {created + 1}
       /\ pc' = "nav_login"
       /\ UNCHANGED <<exitCode, h>>
    \/ /\ Finally(1, "setup_failed", h)
       /\ UNCHANGED <<driver, created>>

\* driver = setup_driver() at the start of monitor_page.
SetupDriverStart ==
    /\ pc = "start"
    /\ setup_driver
    /\ UNCHANGED <<phase, running, initial_content, current_content,
                   nav_result, raised, elapsed_time, sleep_time,
                   check_interval, probe, clock>>

\* ------------------------------------------------- get_initial_content
\* The callers of get_initial_content are outside the loop's try (the call
\* at the start) or inside its except handler (the recovery), so an
\* exception that get_initial_content lets through reaches the outer
\* "except Exception" of monitor_page.
NavRaise(e, hh) ==
    /\ raised' = e
    /\ pc' = "outer_except"
    /\ nav_result' = nav_result
    /\ h' = hh

\* except (NoSuchElementException, TimeoutException): return None, and the
\* "return None" of the else branch.
NavNone(hh) ==
    /\ nav_result' = None
    /\ pc' = "nav_return"
    /\ raised' = raised
    /\ h' = hh

\* driver.get(LOGIN_PAGE), the click on 'azure', username and password.
NavLogin ==
    /\ pc = "nav_login"
    /\ \E e \in {NoError} \cup Exceptions :
         IF e = NoError
         THEN /\ pc' = "nav_wait"
              /\ UNCHANGED <<nav_result, raised, h>>
         ELSE IF ElementNotFound(e)
              THEN NavNone([h EXCEPT !.navError = e])
              ELSE NavRaise(e, h)
    /\ UNCHANGED <<phase, running, driver, initial_content, current_content,
                   elapsed_time, sleep_time, exitCode, check_interval, probe, live,
                   created, clock>>

\* try: wait_until_post_login_ready(...) except TimeoutException: ... input()
\* Where get_initial_content goes on after the wait.
LoginTimeoutAborts(ready) == IF ready THEN "nav_menu" ELSE "nav_return"
AfterLoginWait(ready) == IF ready THEN "nav_menu" ELSE "nav_input"

\* wait_until_post_login_ready(driver, LOGIN_MAX_WAIT): the predicate
\* catches every exception itself, so the wait either sees it become true
\* or raises TimeoutException, which get_initial_content catches to ask
\* for a manual confirmation.
NavWait ==
    /\ pc = "nav_wait"
    /\ \E ready \in BOOLEAN : pc' = AfterLoginWait(ready)
    /\ UNCHANGED <<data, h>>

\* input() returns (Enter was pressed) or raises, which is ignored.
NavInput ==
    /\ pc = "nav_input"
    /\ pc' = "nav_menu"
    /\ h' = [h EXCEPT !.manual = TRUE]
    /\ UNCHANGED data

\* wait_for_elements('auflistung'); with at least two entries the second is
\* clicked, then "Notenspiegel", then the link of the treelist.  With no
\* entry the wait times out; with one the else branch returns None.
NavMenu ==
    /\ pc = "nav_menu"
    /\ \E n \in 0..MaxMenu, e \in {NoError} \cup Exceptions :
         LET hh == [h EXCEPT !.menuCount = n, !.manual = FALSE,
                             !.navError = IF e = NoError /\ n = 0
                                          THEN "TimeoutException" ELSE e] IN
         IF e # NoError /\ ~ElementNotFound(e)
         THEN NavRaise(e, hh)
         ELSE IF e # NoError \/ n < 2
              THEN NavNone(hh)
              ELSE /\ pc' = "nav_extract"
                   /\ h' = hh
                   /\ UNCHANGED <<nav_result, raised>>
    /\ UNCHANGED <<phase, running, driver, initial_content, current_content,
                   elapsed_time, sleep_time, exitCode, check_interval, probe, live,
                   created, clock>>

\* get_current_content: the text of the 'content' element; "" when the
\* element is not found within the timeout (the exception is logged).
GetCurrentContent(t, e) == IF e = NoError THEN Str(t) ELSE Str(EmptyText)

\* return get_current_content(driver)
NavExtract ==
    /\ pc = "nav_extract"
    /\ \E t \in Texts, e \in {NoError} \cup Exceptions :
         IF e # NoError /\ ~ElementNotFound(e)
         THEN NavRaise(e, h)
         ELSE /\ nav_result' = GetCurrentContent(t, e)
              /\ pc' = "nav_return"
              /\ UNCHANGED <<raised, h>>
    /\ UNCHANGED <<phase, running, driver, initial_content, current_content,
                   elapsed_time, sleep_time, exitCode, check_interval, probe, live,
                   created, clock>>

\* What the navigation yielded, for the history.
Yield(v) == IF v.isNone THEN "none" ELSE IF v.text = EmptyText THEN "empty" ELSE "text"

\* initial_content = get_initial_content(driver); if not initial_content:
\* return (through the finally).
StartingReturn ==
    /\ pc = "nav_return"
    /\ phase = "Starting"
    /\ initial_content' = nav_result
    /\ nav_result' = None
    /\ LET hh == [h EXCEPT !.startYield = Yield(nav_result),
                           !.menuCount = IF Yield(nav_result) = "text" THEN -1 ELSE @,
                           !.navError = IF Yield(nav_result) = "text" THEN NoError ELSE @,
                           !.baseFrom = driver, !.navOn = driver] IN
       IF Falsy(nav_result)
       THEN Finally(0, "no_initial", hh)
       ELSE /\ pc' = "loop_check"
            /\ h' = hh
            /\ UNCHANGED <<exitCode, live>>
    /\ UNCHANGED <<phase, running, driver, current_content, raised,
                   elapsed_time, sleep_time, check_interval, probe, created, clock>>

\* ------------------------------------------------------ the monitoring loop
\* while running: start_time = time.time().  elapsed_time and sleep_time of
\* the cycle before are not read again before they are assigned, so the
\* model forgets them here.
LoopCheck ==
    /\ pc = "loop_check"
    /\ IF LoopCondition(running)
       THEN /\ h.cycles < MaxCycles
            /\ pc' = "refresh"
            /\ phase' = "Monitoring"
            /\ clock' = 0
            /\ elapsed_time' = 0
            /\ sleep_time' = 0
            /\ h' = [h EXCEPT !.cycles = @ + 1, !.cycleAlerts = 0,
                              !.soundFailed = FALSE, !.compared = FALSE,
                              !.prevBase = None, !.cycleError = NoError,
                              !.cycleErrorAt = "none", !.failClock = 0]
            /\ UNCHANGED <<exitCode, live>>
       ELSE /\ Finally(0, "shutdown", h)
            /\ UNCHANGED <<phase, clock, elapsed_time, sleep_time>>
    /\ UNCHANGED <<running, driver, initial_content, current_content,
                   nav_result, raised, check_interval, probe, created>>

\* An exception leaves the try of the cycle: the loop's handler takes a
\* WebDriverException, anything else goes to the outer "except Exception".
CycleRaise(e, at, now) ==
    /\ raised' = e
    /\ pc' = LoopHandler(e)
    /\ phase' = IF LoopHandler(e) = "recover_quit" THEN "Recovering" ELSE phase
    /\ h' = [h EXCEPT !.cycleError = e, !.cycleErrorAt = at,
                      !.failClock = now,
                      !.errSession = IF LoopHandler(e) = "recover_quit"
                                     THEN driver ELSE @,
                      !.refreshes = IF at = "refresh" THEN @ + 1 ELSE @]

\* driver.refresh()
Refresh ==
    /\ pc = "refresh"
    /\ \E d \in Durations, e \in {NoError} \cup RefreshErrors :
         /\ clock' = clock + d
         /\ IF e = NoError
            THEN /\ pc' = "extract"
                 /\ h' = [h EXCEPT !.refreshes = @ + 1]
                 /\ UNCHANGED <<raised, phase>>
            ELSE CycleRaise(e, "refresh", clock + d)
    /\ UNCHANGED <<running, driver, initial_content, current_content,
                   nav_result, elapsed_time, sleep_time, exitCode,
                   check_interval, probe, live, created>>

\* current_content = get_current_content(driver)
Extract ==
    /\ pc = "extract"
    /\ \E t \in Texts, e \in {NoError} \cup Exceptions :
         IF e # NoError /\ ~ElementNotFound(e)
         THEN /\ CycleRaise(e, "extract", clock)
              /\ UNCHANGED current_content
         ELSE /\ current_content' = GetCurrentContent(t, e)
              /\ pc' = "compare"
              /\ h' = [h EXCEPT !.curFrom = driver, !.cycleError = e,
                                !.cycleErrorAt =
                                    IF e = NoError THEN "none" ELSE "extract"]
              /\ UNCHANGED <<raised, phase>>
    /\ UNCHANGED <<running, driver, initial_content, nav_result,
                   elapsed_time, sleep_time, exitCode, check_interval, probe, live,
                   created, clock>>

\* play_sound(): winsound.Beep inside try / except Exception, which logs.
\* The exception that leaves play_sound when the beep raises beepError.
PlaySoundPropagates(beepError) == beepError
play_sound(beepError) == NoError

\* if current_content != initial_content: play_sound(); initial_content =
\* current_content.
Compare ==
    /\ pc = "compare"
    /\ IF Changed(current_content, initial_content)
       THEN \E beepError \in {NoError, "Exception"} :
              LET out == play_sound(beepError)
                  hh  == [h EXCEPT !.compares = @ + 1, !.alerts = @ + 1,
                                   !.cycleAlerts = @ + 1,
                                   !.soundFailed = (beepError # NoError),
                                   !.compared = TRUE,
                                   !.prevBase = initial_content,
                                   !.pendingChange = FALSE]
              IN IF out = NoError
                 THEN /\ initial_content' =
                            BaselineAfterCompare(current_content, initial_content)
                      /\ pc' = "sleep_calc"
                      /\ h' = [hh EXCEPT !.baseFrom = h.curFrom,
                                         !.unchangedRun = 0, !.runBase = None]
                      /\ UNCHANGED <<raised, phase>>
                 ELSE /\ raised' = out
                      /\ pc' = LoopHandler(out)
                      /\ phase' = IF LoopHandler(out) = "recover_quit"
                                  THEN "Recovering" ELSE phase
                      /\ h' = [hh EXCEPT !.cycleError = out,
                                         !.cycleErrorAt = "play_sound",
                                         !.failClock = clock]
                      /\ UNCHANGED initial_content
       ELSE /\ initial_content' =
                  BaselineAfterCompare(current_content, initial_content)
            /\ pc' = "sleep_calc"
            /\ h' = [h EXCEPT !.compares = @ + 1,
                              !.compared = TRUE, !.prevBase = initial_content,
                              !.unchangedRun = @ + 1,
                              !.runBase = IF h.unchangedRun = 0
                                          THEN initial_content ELSE @]
            /\ UNCHANGED <<raised, phase>>
    /\ UNCHANGED <<running, driver, current_content, nav_result,
                   elapsed_time, sleep_time, exitCode, check_interval, probe,
                   live, created, clock>>

\* elapsed_time = time.time() - start_time; sleep_time = max(0, ...);
\* if sleep_time > 0: time.sleep(sleep_time)
SleepCalc ==
    /\ pc = "sleep_calc"
    /\ elapsed_time' = clock
    /\ sleep_time' = SleepTime(check_interval, clock)
    /\ pc' = IF sleep_time' > 0 THEN "sleeping" ELSE "loop_check"
    /\ h' = [h EXCEPT !.completed = @ + 1]
    /\ UNCHANGED <<phase, running, driver, initial_content, current_content,
                   nav_result, raised, exitCode, check_interval, probe, live,
                   created, clock>>

\* time.sleep(sleep_time), in the cycle or in the recovery handler.  A
\* signal whose handler returns normally does not cut the sleep short.
Sleep ==
    /\ pc = "sleeping"
    /\ pc' = "loop_check"
    /\ UNCHANGED <<data, h>>

\* ------------------------------------------------------------- recovery
\* except WebDriverException: if driver: driver.quit()
RecoverQuit ==
    /\ pc = "recover_quit"
    /\ live' = Quit(driver, live)
    /\ raised' = NoError
    /\ pc' = "recover_setup"
    /\ h' = [h EXCEPT !.unchangedRun = 0, !.runBase = None]
    /\ UNCHANGED <<phase, running, driver, initial_content, current_content,
                   nav_result, elapsed_time, sleep_time, exitCode,
                   check_interval, probe, created, clock>>

\* driver = setup_driver() in the handler; on sys.exit(1) driver still
\* names the session that was quit.
RecoverSetup ==
    /\ pc = "recover_setup"
    /\ setup_driver
    /\ UNCHANGED <<phase, running, initial_content, current_content,
                   nav_result, raised, elapsed_time, sleep_time,
                   check_interval, probe, clock>>

\* initial_content = get_initial_content(driver) in the handler.  The
\* re-login takes its time.
RecoveryReturn ==
    /\ pc = "nav_return"
    /\ phase = "Recovering"
    /\ \E d \in Durations : clock' = clock + d
    /\ LET b == BaselineAfterRecovery(
                    [val |-> nav_result, from |-> driver],
                    [val |-> initial_content, from |-> h.baseFrom])
       IN /\ initial_content' = b.val
          /\ h' = [h EXCEPT !.baseFrom = b.from, !.navOn = driver,
                            !.menuCount = -1, !.navError = NoError,
                            !.manual = FALSE,
                            !.pendingChange =
                                /\ Yield(nav_result) = "text"
                                /\ Yield(initial_content) = "text"
                                /\ nav_result # initial_content]
    /\ nav_result' = None
    /\ pc' = "rec_sleep_calc"
    /\ UNCHANGED <<phase, running, driver, current_content, raised,
                   elapsed_time, sleep_time, exitCode, check_interval, probe, live,
                   created>>

\* elapsed_time = time.time() - start_time in the handler: start_time is
\* the one taken at the start of the cycle that failed.  now is the time
\* since start_time, failedAt the time since start_time at which the handler
\* was entered.
ElapsedSinceRecoveryBegan(now, failedAt) == now - failedAt
RecoveryElapsed(now, failedAt) == now

RecoverySleepCalc ==
    /\ pc = "rec_sleep_calc"
    /\ elapsed_time' = RecoveryElapsed(clock, h.failClock)
    /\ sleep_time' = SleepTime(check_interval, elapsed_time')
    /\ pc' = IF sleep_time' > 0 THEN "sleeping" ELSE "loop_check"
    /\ h' = [h EXCEPT !.completed = @ + 1]
    /\ UNCHANGED <<phase, running, driver, initial_content, current_content,
                   nav_result, raised, exitCode, check_interval, probe, live,
                   created, clock>>

\* except Exception as e: logger.error(...); then the finally.  The
\* function returns normally, so the process ends with status 0.
OuterExcept ==
    /\ pc = "outer_except"
    /\ raised' = NoError
    /\ Finally(0, "exception", [h EXCEPT !.stopError = raised])
    /\ UNCHANGED <<phase, running, driver, initial_content, current_content,
                   nav_result, elapsed_time, sleep_time, check_interval, probe,
                   created, clock>>

Next ==
    \/ Signal
    \/ SetupDriverStart
    \/ NavLogin
    \/ NavWait
    \/ NavInput
    \/ NavMenu
    \/ NavExtract
    \/ StartingReturn
    \/ LoopCheck
    \/ Refresh
    \/ Extract
    \/ Compare
    \/ SleepCalc
    \/ Sleep
    \/ RecoverQuit
    \/ RecoverSetup
    \/ RecoveryReturn
    \/ RecoverySleepCalc
    \/ OuterExcept

Spec == Init /\ [][Next]_vars

\* The sleep computation alone, for every elapsed time and every interval:
\* the state at "elapsed_time = time.time() - start_time" of a first cycle
\* that found no change.
SleepInit ==
    /\ pc = "sleep_calc"
    /\ phase = "Monitoring"
    /\ running = TRUE
    /\ driver = 1
    /\ initial_content = Str(1)
    /\ current_content = Str(1)
    /\ nav_result = None
    /\ raised = NoError
    /\ elapsed_time = 0
    /\ sleep_time = 0
    /\ exitCode = 0
    /\ check_interval \in 0..MaxInterval
    /\ probe = NoProbe
    /\ live = {1}
    /\ created = 1
    /\ clock \in 0..MaxElapsed
    /\ h = [NoHistory EXCEPT !.cycles = 1, !.refreshes = 1, !.compares = 1,
                             !.compared = TRUE, !.prevBase = Str(1),
                             !.baseFrom = 1, !.curFrom = 1, !.navOn = 1,
                             !.unchangedRun = 1, !.runBase = Str(1),
                             !.startYield = "text"]

SleepNext == SleepCalc \/ Sleep

SleepSpec == SleepInit /\ [][SleepNext]_vars

\* ================================================================ claims

\* C1: a cycle whose extracted text differs from lastSnapshot invokes the
\* alert exactly once and ends with lastSnapshot equal to the extracted text.
C1_ChangeAlertsOnceAndUpdates ==
    (h.compared /\ current_content # h.prevBase)
        => (h.cycleAlerts = 1 /\ initial_content = current_content)

C1_Witness ==
    /\ pc = "loop_check"
    /\ h.compared
    /\ ~h.prevBase.isNone
    /\ current_content # h.prevBase
    /\ h.cycleAlerts = 1
    /\ initial_content = current_content

\* C2: a cycle whose extracted text equals lastSnapshot does not invoke the
\* alert.
C2_NoChangeNoAlert ==
    (h.compared /\ current_content = h.prevBase) => h.cycleAlerts = 0

C2_Witness ==
    /\ pc = "loop_check"
    /\ h.compared
    /\ current_content = h.prevBase
    /\ h.cycleAlerts = 0

\* C3: through any run of consecutive cycles that found the content
\* unchanged, lastSnapshot is what it was before the first of them.
C3_UnchangedCyclesKeepBaseline ==
    h.unchangedRun > 0 => initial_content = h.runBase

C3_Witness ==
    /\ h.unchangedRun >= 2
    /\ pc = "loop_check"
    /\ initial_content = h.runBase

C5_TransportErrorNeverStops ==
    ~( /\ pc = "stopped"
       /\ running
       /\ h.stopPhase = "Recovering"
       /\ \/ h.stopCause = "setup_failed"
          \/ h.stopCause = "exception" /\ h.stopError = "WebDriverException" )

C7_ShutdownAtCycleBoundary ==
    /\ ~running => (h.cycles = h.signalCycle /\ h.refreshes <= h.signalCycle)
    /\ (pc = "stopped" /\ h.stopCause = "shutdown")
          => (~running /\ h.completed = h.cycles)
    /\ (pc = "stopped" /\ ~running) => live = {}

C7_Witness ==
    /\ pc = "stopped"
    /\ h.stopCause = "shutdown"
    /\ h.signalAt = "sleeping"
    /\ h.cycles >= 1
    /\ h.refreshes = h.signalCycle
    /\ live = {}

\* C8: at most one session is live; navigate, refresh and text extraction
\* are issued on a live session; in the recovery the old session is disposed
\* before the new one is created.
DriverOpPcs == {"nav_login", "nav_wait", "nav_menu", "nav_extract",
                "refresh", "extract"}

C8_OneLiveSession ==
    /\ Cardinality(live) <= 1
    /\ pc \in DriverOpPcs => driver \in live
    /\ pc = "recover_setup" => live = {}

C8_Witness ==
    /\ phase = "Recovering"
    /\ pc = "nav_login"
    /\ driver = 2
    /\ live = {2}

\* C9: the sleep computed at the end of a normal cycle is max(0, I - e):
\* never negative, 0 when e >= I (the loop goes straight to its next
\* check), I - e otherwise, and 25 for I = 30, e = 5.
C9_SleepTime ==
    (pc \in {"sleeping", "loop_check"} /\ phase = "Monitoring" /\ h.completed = h.cycles
        /\ h.cycles > 0) =>
        /\ elapsed_time = clock
        /\ sleep_time >= 0
        /\ elapsed_time >= check_interval => (sleep_time = 0 /\ pc = "loop_check")
        /\ elapsed_time < check_interval =>
               (sleep_time = check_interval - elapsed_time)
        /\ (check_interval = 30 /\ elapsed_time = 5) => sleep_time = 25

C9_Witness ==
    /\ pc = "sleeping"
    /\ check_interval = 30
    /\ elapsed_time = 5
    /\ sleep_time = 25

C11_FatalExitsNonZero ==
    pc = "stopped" =>
        /\ h.stopCause = "no_initial" => exitCode # 0
        /\ (h.stopCause = "exception" /\ h.stopPhase = "Monitoring") => exitCode # 0
        /\ h.stopCause = "shutdown" => exitCode = 0

\* ------------------------------------------------------------- ReadySpec
\* One poll of the readiness predicate by wait_until_post_login_ready, for
\* every login page, current URL and outcome of the marker lookups:
\* target_host = _get_netloc(LOGIN_PAGE), then _post_login_ready.
ReadyInit ==
    /\ pc = "nav_wait"
    /\ phase = "Starting"
    /\ running = TRUE
    /\ driver = 1
    /\ initial_content = None
    /\ current_content = None
    /\ nav_result = None
    /\ raised = NoError
    /\ elapsed_time = 0
    /\ sleep_time = 0
    /\ exitCode = 0
    /\ check_interval = CHECK_INTERVAL
    /\ probe \in [polled : {FALSE}, ready : {FALSE}, login_page : LoginPages,
                  current_url : CurrentUrls,
                  markers : [1..3 -> LookupOutcomes]]
    /\ live = {1}
    /\ created = 1
    /\ clock = 0
    /\ h = NoHistory

PostLoginPoll ==
    /\ pc = "nav_wait"
    /\ ~probe.polled
    /\ LET target_host == get_netloc(probe.login_page)
           ready == post_login_ready(probe.current_url, probe.markers, target_host)
       IN /\ probe' = [probe EXCEPT !.polled = TRUE, !.ready = ready]
          /\ pc' = IF ready THEN "nav_menu" ELSE "nav_wait"
    /\ UNCHANGED <<phase, running, driver, initial_content, current_content,
                   nav_result, raised, elapsed_time, sleep_time, exitCode,
                   check_interval, live, created, clock, h>>

ReadyNext == PostLoginPoll

ReadySpec == ReadyInit /\ [][ReadyNext]_vars

\* The first marker lookup that finds something is not preceded by one
\* that raised.
SomeMarkerSeen(m) ==
    \E i \in 1..3 : m[i] = "present" /\ \A j \in 1..(i - 1) : m[j] = "absent"

\* C12: a current URL that contains the target host H as a substring is
\* ready whatever the markers; a current URL that does not contain H is
\* ready when a marker element is found.
C12_ReadyOnHostOrMarker ==
    probe.polled =>
        LET H == get_netloc(probe.login_page) IN
        /\ (H # <<>> /\ Contains(H, probe.current_url)) => probe.ready
        /\ (~Contains(H, probe.current_url) /\ SomeMarkerSeen(probe.markers))
               => probe.ready

C12_Witness ==
    /\ probe.polled
    /\ probe.ready
    /\ pc = "nav_menu"
    /\ get_netloc(probe.login_page) = <<"a", "a">>
    /\ ~Contains(<<"a", "a">>, probe.current_url)
    /\ probe.current_url # <<>>
    /\ probe.markers = <<"absent", "absent", "present">>

\* C13: ready if and only if the host of the current URL equals the host of
\* the login page or a marker element is present (for polls whose lookups
\* do not raise).
C13_ReadyIffHostEqualOrMarker ==
    (probe.polled /\ \A i \in 1..3 : probe.markers[i] # "raises") =>
        LET H == get_netloc(probe.login_page) IN
        probe.ready <=>
            \/ H # <<>> /\ get_netloc(probe.current_url) = H
            \/ \E i \in 1..3 : probe.markers[i] = "present"

\* C14: a login wait that times out does not abort the navigation: the
\* walker blocks for the manual confirmation and, once input() returns or
\* raises, goes on with the menu steps on the same session.
C14_TimeoutFallsBackToManual ==
    [][ /\ (pc = "nav_wait" /\ pc' # pc) => pc' \in {"nav_menu", "nav_input"}
        /\ (pc = "nav_input" /\ pc' # pc) =>
               (pc' = "nav_menu" /\ driver' = driver /\ driver \in live'
                    /\ nav_result' = nav_result) ]_vars

C14_Witness ==
    /\ pc = "nav_menu"
    /\ h.manual
    /\ driver \in live

\* C15: in a cycle where the content changed and the beep failed, nothing
\* propagates: lastSnapshot is the new text, the cycle goes on to its sleep
\* and the monitor stays in Monitoring.
C15_AlertFailureContained ==
    h.soundFailed =>
        /\ raised = NoError
        /\ phase = "Monitoring"
        /\ h.compared /\ h.cycleAlerts = 1
        /\ current_content # h.prevBase
        /\ initial_content = current_content
        /\ pc \in {"sleep_calc", "sleeping", "loop_check", "stopped"}
        /\ pc = "stopped" => h.stopCause = "shutdown"

C15_Witness ==
    /\ h.soundFailed
    /\ pc = "sleeping"
    /\ phase = "Monitoring"
    /\ initial_content = current_content
    /\ current_content # h.prevBase

\* The recovery handler has computed its sleep.
AfterRecovery ==
    /\ phase = "Recovering"
    /\ pc \in {"sleeping", "loop_check"}
    /\ h.completed = h.cycles

\* C16 as stated: after a recovery the sleep is computed from the time
\* elapsed since the recovery began.
C16_SleepFromRecoveryStart ==
    AfterRecovery =>
        sleep_time = Max(0, check_interval - (clock - h.failClock))

\* C16 amended: after a recovery the sleep is computed from the time
\* elapsed since the start of the cycle in which the error occurred.
C16_SleepFromCycleStart ==
    AfterRecovery =>
        /\ elapsed_time = clock
        /\ sleep_time = Max(0, check_interval - clock)

C16_Witness ==
    /\ AfterRecovery
    /\ pc = "sleeping"
    /\ h.failClock = 5
    /\ clock = 10
    /\ sleep_time = 20

\* C17: whenever the loop is about to start a cycle, lastSnapshot is a
\* present, non-empty text; stated here for the case the claim singles out,
\* the loop going on after a navigation (at the start or in a recovery).
C17_BaselinePresentAfterNavigation ==
    (pc = "loop_check" /\ phase \in {"Starting", "Recovering"}) =>
        (~initial_content.isNone /\ initial_content.text # EmptyText)

\* C18: a text re-derived by a recovery that differs from the lastSnapshot
\* held before the failure is alerted, at the latest by the time the next
\* cycle has compared.
C18_ChangeAcrossRecoveryAlerted ==
    ~(h.pendingChange /\ h.compared)

\* C19: a cycle in which the content element was not found invokes no
\* alert and leaves lastSnapshot as it was.
C19_NotFoundIsNoChange ==
    (h.compared /\ h.cycleErrorAt = "extract"
        /\ h.cycleError \in {"NoSuchElementException", "TimeoutException"}) =>
        /\ h.cycleAlerts = 0
        /\ initial_content = h.prevBase

\* -------------------------------------------------------------- liveness
\* Every browser operation and every bounded wait returns, so every step
\* but two is taken once it is possible.  The two are the signal, which
\* nobody has to send, and input(), which waits for the terminal with no
\* bound.
Progress ==
    \/ SetupDriverStart
    \/ NavLogin
    \/ NavWait
    \/ NavMenu
    \/ NavExtract
    \/ StartingReturn
    \/ LoopCheck
    \/ Refresh
    \/ Extract
    \/ Compare
    \/ SleepCalc
    \/ Sleep
    \/ RecoverQuit
    \/ RecoverSetup
    \/ RecoveryReturn
    \/ RecoverySleepCalc
    \/ OuterExcept

LiveSpec == Init /\ [][Next]_vars /\ WF_vars(Progress)

\* C20: once the shutdown is requested the monitor eventually is Stopped
\* with its session disposed.
C20_ShutdownEventuallyStops ==
    (~running) ~> (pc = "stopped" /\ live = {})
====
